---- MODULE Spec2Model ----
(***************************************************************************)
(* Model of termscp's command-line remote resolver                         *)
(* (src/cli/remote.rs, RemoteArgs::try_from and its helpers), of its key   *)
(* bindings (src/config/keybindings.rs) and of the provider that keeps     *)
(* them in a file (src/system/keybindings_provider.rs).                    *)
(*                                                                         *)
(* Strings are sequences of one-character strings, so that the ':' split   *)
(* of parse_ssh_host and the path comparison are computed, not assumed.    *)
(* Option<T> is a sequence of length 0 (None) or 1 (Some(v)).              *)
(* Result<T, String> is [ok |-> TRUE, value |-> v] or                      *)
(* [ok |-> FALSE, err |-> e].                                              *)
(***************************************************************************)
EXTENDS Integers, Sequences, FiniteSets, TLC

VARIABLES
    args,         \* the &Args given to try_from
    ssh_config,   \* what SshConfig::parse_default_file yields in this run
    pc,           \* position inside try_from
    i,            \* index of enumerate() in the for loop
    hosts,        \* the local vec `hosts`
    remote_args,  \* the local `remote_args`
    result,       \* the value returned by try_from
    io,           \* external calls made so far, in order
    resolved,     \* history of hosts.push: the index and the Remote of each push
    key_call,     \* the last call on a KeyBinding: its operation, inputs and output
    provider,     \* the KeyBindingsProvider at hand, None when there is none
    file,         \* what is at keybindings_path
    access,       \* whether keybindings_path can be opened
    last,         \* the last provider operation: receiver before it, outcome, file calls
    saved         \* history: the keybindings written by the last successful save

resolver_vars == <<args, ssh_config, pc, i, hosts, remote_args, result, io, resolved>>
key_vars == <<key_call>>
provider_vars == <<provider, file, access, last, saved>>
vars == <<resolver_vars, key_vars, provider_vars>>

---------------------------------------------------------------------------
(* Bounds of the explored inputs *)

MaxArgs == 4
MaxPasswords == 2

---------------------------------------------------------------------------
(* Option and Result *)

None == <<>>
Some(v) == <<v>>
Ok(v) == [ok |-> TRUE, value |-> v]
Err(e) == [ok |-> FALSE, err |-> e]
Pending == [ok |-> FALSE, err |-> [msg |-> "pending", detail |-> <<>>]]

---------------------------------------------------------------------------
(* Argument texts of the explored inputs and the environment they meet *)

Home == <<"/">>
HostA == <<"h">>
HostAPath == <<"h", ":", "d", ":", "e">>
HostAColon == <<"h", ":">>
Bad == <<"?">>

Texts == {Home, HostA, HostAPath, HostAColon, Bad}
Passwords == {"pw1", "pw2"}

\* filesystem entries that exist when try_from runs
ExistingPaths == {Home}

\* address strings the address parser rejects
RejectedAddresses == {Bad}

\* hosts of the user's SSH configuration, in file order
SshHosts ==
    << [pattern |-> << [pattern |-> <<"h">>, negated |-> TRUE],
                       [pattern |-> <<"?">>, negated |-> TRUE] >>,
        params |-> [host_name |-> Some(<<"n">>), port |-> Some(1), user |-> None]],
       [pattern |-> << [pattern |-> <<"x">>, negated |-> FALSE],
                       [pattern |-> <<"h">>, negated |-> FALSE] >>,
        params |-> [host_name |-> Some(<<"a">>), port |-> Some(2222), user |-> Some(<<"b">>)]],
       [pattern |-> << [pattern |-> <<"h">>, negated |-> FALSE],
                       [pattern |-> <<"/">>, negated |-> FALSE] >>,
        params |-> [host_name |-> None, port |-> None, user |-> None]] >>

SshConfigs == {Err(<<"unreadable">>), Ok(SshHosts)}

---------------------------------------------------------------------------
(* Data types *)

RemoteNone == [kind |-> "None"]
RemoteBookmark(p) == [kind |-> "Bookmark", params |-> p]
RemoteHost(p) == [kind |-> "Host", params |-> p]

is_none(r) == r.kind = "None"

BookmarkParams_new(name, password) == [name |-> name, password |-> password]

HostParams_new(params, password) ==
    [file_transfer_params |-> params, password |-> password]

RemoteArgs_default ==
    [host_bridge |-> RemoteNone, remote |-> RemoteNone, local_dir |-> None]

Ev(op, idx, ok) == [op |-> op, i |-> idx, ok |-> ok]

---------------------------------------------------------------------------
(* Collaborators *)

path_exists(arg) == arg \in ExistingPaths

parse_remote_opt(remote) ==
    IF remote \in RejectedAddresses
    THEN Err(remote)
    ELSE Ok([protocol |-> "parsed", address |-> remote, port |-> None,
             username |-> None, remote_path |-> None])

---------------------------------------------------------------------------
(* RemoteArgs helpers *)

parse_remote_address(remote) ==
    LET r == parse_remote_opt(remote)
    IN  IF r.ok THEN r ELSE Err([msg |-> "Bad address option", detail |-> r.err])

\* str::find(':') as a 1-based position, 0 when absent
find_colon(s) ==
    IF \E k \in 1..Len(s) : s[k] = ":"
    THEN CHOOSE k \in 1..Len(s) : s[k] = ":" /\ \A j \in 1..(k - 1) : s[j] # ":"
    ELSE 0

\* the split with an empty path kept as Some("")
split_host_arg_keep_empty(host_arg) ==
    LET colon_pos == find_colon(host_arg)
    IN  IF colon_pos > 0
        THEN [host_alias |-> SubSeq(host_arg, 1, colon_pos - 1),
              remote_path |-> Some(SubSeq(host_arg, colon_pos + 1, Len(host_arg)))]
        ELSE [host_alias |-> host_arg, remote_path |-> None]

split_host_arg(host_arg) ==
    LET colon_pos == find_colon(host_arg)
    IN  IF colon_pos > 0
        THEN LET alias == SubSeq(host_arg, 1, colon_pos - 1)
                 path == SubSeq(host_arg, colon_pos + 1, Len(host_arg))
             IN  [host_alias |-> alias,
                  remote_path |-> IF path = <<>> THEN None ELSE Some(path)]
        ELSE [host_alias |-> host_arg, remote_path |-> None]

\* the match with the negation flag ignored
host_matches_any(h, host_alias) ==
    \E k \in 1..Len(h.pattern) : h.pattern[k].pattern = host_alias

host_matches(h, host_alias) ==
    \E k \in 1..Len(h.pattern) :
        ~h.pattern[k].negated /\ h.pattern[k].pattern = host_alias

find_host(cfg_hosts, host_alias) ==
    IF \E k \in 1..Len(cfg_hosts) : host_matches(cfg_hosts[k], host_alias)
    THEN Some(cfg_hosts[CHOOSE k \in 1..Len(cfg_hosts) :
                  /\ host_matches(cfg_hosts[k], host_alias)
                  /\ \A j \in 1..(k - 1) : ~host_matches(cfg_hosts[j], host_alias)])
    ELSE None

unwrap_or(opt, default) == IF opt = None THEN default ELSE opt[1]

parse_ssh_host(cfg, host_arg) ==
    LET sp == split_host_arg(host_arg)
        found == find_host(cfg.value, sp.host_alias)
    IN  IF ~cfg.ok
        THEN Err([msg |-> "Could not parse SSH config", detail |-> cfg.err])
        ELSE IF found = None
        THEN Err([msg |-> "SSH host not found in ~/.ssh/config", detail |-> sp.host_alias])
        ELSE LET host == found[1]
             IN  Ok([protocol |-> "Sftp",
                     address |-> unwrap_or(host.params.host_name, sp.host_alias),
                     port |-> Some(unwrap_or(host.params.port, 22)),
                     username |-> host.params.user,
                     remote_path |-> sp.remote_path])

---------------------------------------------------------------------------
(* RemoteArgs::try_from, as operators over the record of its locals *)

total_hosts(a) == Len(a.bookmark) + Len(a.ssh_host) + Len(a.positional)

\* total_hosts.checked_sub(1).unwrap_or_default()
last_item_index(a) == IF total_hosts(a) >= 1 THEN total_hosts(a) - 1 ELSE 0

tag(addr_type, xs) == [k \in 1..Len(xs) |-> [addr_type |-> addr_type, arg |-> xs[k]]]

\* the chain with the positionals put first
chain_positional_first(a) ==
    tag("Address", a.positional) \o tag("Bookmark", a.bookmark) \o tag("SshHost", a.ssh_host)

\* bookmark.iter().chain(ssh_host.iter()).chain(positional.iter())
chain(a) ==
    tag("Bookmark", a.bookmark) \o tag("SshHost", a.ssh_host) \o tag("Address", a.positional)

\* the password taken by role: the one host that becomes the target gets the first
password_get_shifted(a, idx) ==
    IF idx + 1 < Len(a.password) THEN Some(a.password[idx + 2]) ELSE None

\* args.password.get(idx).cloned(), idx counted from 0
password_get(a, idx) ==
    IF idx < Len(a.password) THEN Some(a.password[idx + 1]) ELSE None

Locals ==
    [pc |-> pc, i |-> i, hosts |-> hosts, remote_args |-> remote_args,
     result |-> result, io |-> io, resolved |-> resolved]

start ==
    [pc |-> "validate", i |-> 0, hosts |-> <<>>, remote_args |-> RemoteArgs_default,
     result |-> Pending, io |-> <<>>, resolved |-> <<>>]

\* validate with the limit off by one
validate_lax(a, s) ==
    IF total_hosts(a) > 4
    THEN [s EXCEPT !.pc = "done",
                   !.result = Err([msg |-> "Too many arguments", detail |-> <<>>])]
    ELSE [s EXCEPT !.pc = "loop"]

\* lines 39-47: the argument count check
validate(a, s) ==
    IF total_hosts(a) > 3
    THEN [s EXCEPT !.pc = "done",
                   !.result = Err([msg |-> "Too many arguments", detail |-> <<>>])]
    ELSE [s EXCEPT !.pc = "loop"]

\* the path test made on every item, not only on the last
is_local_dir_anywhere(a, s) == path_exists(chain(a)[s.i + 1].arg)

\* line 63: i == last_item_index && Path::new(arg).exists(), with its short circuit
is_local_dir(a, s) ==
    s.i = last_item_index(a) /\ path_exists(chain(a)[s.i + 1].arg)

io_exists(a, s) ==
    IF s.i = last_item_index(a)
    THEN Append(s.io, Ev("exists", s.i, path_exists(chain(a)[s.i + 1].arg)))
    ELSE s.io

\* take_local_dir without the `continue`: the item is also pushed, as a bookmark
take_local_dir_no_continue(a, s) ==
    LET r == RemoteBookmark(BookmarkParams_new(chain(a)[s.i + 1].arg, password_get(a, s.i)))
    IN  [s EXCEPT !.remote_args.local_dir = Some(chain(a)[s.i + 1].arg),
                  !.hosts = Append(s.hosts, r),
                  !.resolved = Append(s.resolved, [i |-> s.i, remote |-> r]),
                  !.io = io_exists(a, s),
                  !.i = s.i + 1]

\* lines 63-66: the last item is an existing path
take_local_dir(a, s) ==
    [s EXCEPT !.remote_args.local_dir = Some(chain(a)[s.i + 1].arg),
              !.io = io_exists(a, s),
              !.i = s.i + 1]

\* the match on addr_type with bookmark names parsed as addresses
resolve_bookmark_parsed(a, cfg, s) ==
    LET item == chain(a)[s.i + 1]
        password == password_get(a, s.i)
    IN  CASE item.addr_type \in {"Address", "Bookmark"} ->
               LET r == parse_remote_address(item.arg)
               IN  IF r.ok
                   THEN IF item.addr_type = "Bookmark"
                        THEN Ok(RemoteBookmark(BookmarkParams_new(item.arg, password)))
                        ELSE Ok(RemoteHost(HostParams_new(r.value, password)))
                   ELSE r
          [] item.addr_type = "SshHost" ->
               LET r == parse_ssh_host(cfg, item.arg)
               IN  IF r.ok THEN Ok(RemoteHost(HostParams_new(r.value, password))) ELSE r

\* lines 68-74: the match on addr_type, before the `?`
resolve(a, cfg, s) ==
    LET item == chain(a)[s.i + 1]
        password == password_get(a, s.i)
    IN  CASE item.addr_type = "Address" ->
               LET r == parse_remote_address(item.arg)
               IN  IF r.ok THEN Ok(RemoteHost(HostParams_new(r.value, password))) ELSE r
          [] item.addr_type = "Bookmark" ->
               Ok(RemoteBookmark(BookmarkParams_new(item.arg, password)))
          [] item.addr_type = "SshHost" ->
               LET r == parse_ssh_host(cfg, item.arg)
               IN  IF r.ok THEN Ok(RemoteHost(HostParams_new(r.value, password))) ELSE r

io_resolve(a, cfg, s) ==
    LET item == chain(a)[s.i + 1]
        io1 == io_exists(a, s)
    IN  CASE item.addr_type = "Address" ->
               Append(io1, Ev("parse_remote_opt", s.i, parse_remote_opt(item.arg).ok))
          [] item.addr_type = "Bookmark" -> io1
          [] item.addr_type = "SshHost" ->
               Append(io1, Ev("parse_default_file", s.i, cfg.ok))

\* a failed resolution replaced by the default Remote, the loop going on
push_or_default(s, r, io1) ==
    LET v == IF r.ok THEN r.value ELSE RemoteNone
    IN  [s EXCEPT !.hosts = Append(s.hosts, v),
                  !.resolved = Append(s.resolved, [i |-> s.i, remote |-> v]),
                  !.io = io1,
                  !.i = s.i + 1]

\* a failed resolution skipped instead of returned
push_or_skip(s, r, io1) ==
    IF r.ok
    THEN [s EXCEPT !.hosts = Append(s.hosts, r.value),
                   !.resolved = Append(s.resolved, [i |-> s.i, remote |-> r.value]),
                   !.io = io1,
                   !.i = s.i + 1]
    ELSE [s EXCEPT !.io = io1, !.i = s.i + 1]

\* lines 68-77: `?` returns the error, otherwise hosts.push(remote)
push_or_return(s, r, io1) ==
    IF r.ok
    THEN [s EXCEPT !.hosts = Append(s.hosts, r.value),
                   !.resolved = Append(s.resolved, [i |-> s.i, remote |-> r.value]),
                   !.io = io1,
                   !.i = s.i + 1]
    ELSE [s EXCEPT !.pc = "done", !.result = r, !.io = io1]

resolve_item(a, cfg, s) == push_or_return(s, resolve(a, cfg, s), io_resolve(a, cfg, s))

\* lines 59-77: one iteration of the for loop
loop_body(a, cfg, s) ==
    IF is_local_dir(a, s) THEN take_local_dir(a, s) ELSE resolve_item(a, cfg, s)

\* set_args with the two pops assigned the other way round
set_args_swapped(s) ==
    LET n == Len(s.hosts)
        ra == IF n = 1
              THEN [s.remote_args EXCEPT !.remote = s.hosts[1]]
              ELSE IF n = 2
              THEN [s.remote_args EXCEPT !.host_bridge = s.hosts[1], !.remote = s.hosts[2]]
              ELSE s.remote_args
        left == IF n = 1 \/ n = 2 THEN <<>> ELSE s.hosts
    IN  [s EXCEPT !.pc = "done", !.hosts = left, !.remote_args = ra, !.result = Ok(ra)]

\* set_args putting a single host into host_bridge
set_args_single_bridge(s) ==
    LET n == Len(s.hosts)
        ra == IF n = 1
              THEN [s.remote_args EXCEPT !.host_bridge = s.hosts[1]]
              ELSE IF n = 2
              THEN [s.remote_args EXCEPT !.host_bridge = s.hosts[2], !.remote = s.hosts[1]]
              ELSE s.remote_args
        left == IF n = 1 \/ n = 2 THEN <<>> ELSE s.hosts
    IN  [s EXCEPT !.pc = "done", !.hosts = left, !.remote_args = ra, !.result = Ok(ra)]

\* set_args with the second pop of the two-host branch missing
set_args_one_pop(s) ==
    LET n == Len(s.hosts)
        ra == IF n = 1
              THEN [s.remote_args EXCEPT !.remote = s.hosts[1]]
              ELSE IF n = 2
              THEN [s.remote_args EXCEPT !.host_bridge = s.hosts[2]]
              ELSE s.remote_args
        left == IF n = 1 THEN <<>> ELSE IF n = 2 THEN <<s.hosts[1]>> ELSE s.hosts
    IN  [s EXCEPT !.pc = "done", !.hosts = left, !.remote_args = ra, !.result = Ok(ra)]

\* lines 80-88: roles by hosts.len(); pop() takes from the back
set_args(s) ==
    LET n == Len(s.hosts)
        ra == IF n = 1
              THEN [s.remote_args EXCEPT !.remote = s.hosts[1]]
              ELSE IF n = 2
              THEN [s.remote_args EXCEPT !.host_bridge = s.hosts[2], !.remote = s.hosts[1]]
              ELSE s.remote_args
        left == IF n = 1 \/ n = 2 THEN <<>> ELSE s.hosts
    IN  [s EXCEPT !.pc = "done", !.hosts = left, !.remote_args = ra, !.result = Ok(ra)]

\* one step of try_from from the locals s
step(a, cfg, s) ==
    CASE s.pc = "validate" -> validate(a, s)
      [] s.pc = "loop" /\ s.i < total_hosts(a) -> loop_body(a, cfg, s)
      [] s.pc = "loop" /\ s.i >= total_hosts(a) -> set_args(s)
      [] OTHER -> s

RECURSIVE run(_, _, _)
run(a, cfg, s) == IF s.pc = "done" THEN s ELSE run(a, cfg, step(a, cfg, s))

\* the whole call
try_from(a, cfg) == run(a, cfg, start)

---------------------------------------------------------------------------
(* Key bindings (src/config/keybindings.rs).  A char is a one-element      *)
(* string; NonAscii holds the chars whose UTF-8 encoding is 2 bytes long.  *)

E_ACUTE == "U+00E9"
NonAscii == {E_ACUTE}

UpperCase == <<"A", "B", "C", "D", "E", "F", "G", "H", "I", "J", "K", "L", "M",
               "N", "O", "P", "Q", "R", "S", "T", "U", "V", "W", "X", "Y", "Z">>
LowerCase == <<"a", "b", "c", "d", "e", "f", "g", "h", "i", "j", "k", "l", "m",
               "n", "o", "p", "q", "r", "s", "t", "u", "v", "w", "x", "y", "z">>

\* char::to_lowercase / to_uppercase on the chars of the model
char_to_lowercase(c) ==
    IF \E k \in 1..Len(UpperCase) : UpperCase[k] = c
    THEN LowerCase[CHOOSE k \in 1..Len(UpperCase) : UpperCase[k] = c]
    ELSE c

char_to_uppercase(c) ==
    IF \E k \in 1..Len(LowerCase) : LowerCase[k] = c
    THEN UpperCase[CHOOSE k \in 1..Len(LowerCase) : LowerCase[k] = c]
    ELSE c

to_lowercase(s) == [k \in 1..Len(s) |-> char_to_lowercase(s[k])]
to_uppercase(s) == [k \in 1..Len(s) |-> char_to_uppercase(s[k])]

is_whitespace(c) == c \in {" ", "\t", "\n"}

RECURSIVE trim_start(_)
trim_start(s) ==
    IF s # <<>> /\ is_whitespace(s[1]) THEN trim_start(Tail(s)) ELSE s

RECURSIVE trim_end(_)
trim_end(s) ==
    IF s # <<>> /\ is_whitespace(s[Len(s)])
    THEN trim_end(SubSeq(s, 1, Len(s) - 1))
    ELSE s

\* str::trim
trim(s) == trim_end(trim_start(s))

\* str::len: the length in bytes of the UTF-8 encoding
RECURSIVE str_len(_)
str_len(s) ==
    IF s = <<>> THEN 0
    ELSE (IF s[1] \in NonAscii THEN 2 ELSE 1) + str_len(Tail(s))

\* str::split(sep).collect(): always at least one part
RECURSIVE split(_, _)
split(s, sep) ==
    IF \E k \in 1..Len(s) : s[k] = sep
    THEN LET p == CHOOSE k \in 1..Len(s) : s[k] = sep /\ \A j \in 1..(k - 1) : s[j] # sep
         IN  <<SubSeq(s, 1, p - 1)>> \o split(SubSeq(s, p + 1, Len(s)), sep)
    ELSE <<s>>

\* [String]::join(sep)
RECURSIVE join(_, _)
join(parts, sep) ==
    IF parts = <<>> THEN <<>>
    ELSE IF Len(parts) = 1 THEN parts[1]
    ELSE parts[1] \o <<sep>> \o join(Tail(parts), sep)

\* format!("{}", n) for an unsigned number
RECURSIVE decimal(_)
decimal(n) ==
    LET digit == <<"0", "1", "2", "3", "4", "5", "6", "7", "8", "9">>[(n % 10) + 1]
    IN  IF n < 10 THEN <<digit>> ELSE decimal(n \div 10) \o <<digit>>

\* tuirealm Key and KeyModifiers
Key_Char(c) == [kind |-> "Char", c |-> c]
Key_Function(n) == [kind |-> "Function", n |-> n]
Key_Plain(name) == [kind |-> name]

NONE == {}
CONTROL == {"CONTROL"}
ALT == {"ALT"}
SHIFT == {"SHIFT"}

KeyBinding_new(key, modifiers) == [key |-> key, modifiers |-> modifiers]
simple(key) == KeyBinding_new(key, NONE)
ctrl(key) == KeyBinding_new(key, CONTROL)
alt(key) == KeyBinding_new(key, ALT)
shift(key) == KeyBinding_new(key, SHIFT)

\* the words of the key-binding strings
W_ctrl == <<"c", "t", "r", "l">>
W_control == <<"c", "o", "n", "t", "r", "o", "l">>
W_alt == <<"a", "l", "t">>
W_meta == <<"m", "e", "t", "a">>
W_shift == <<"s", "h", "i", "f", "t">>
W_esc == <<"e", "s", "c">>
W_escape == <<"e", "s", "c", "a", "p", "e">>
W_enter == <<"e", "n", "t", "e", "r">>
W_return == <<"r", "e", "t", "u", "r", "n">>
W_cr == <<"c", "r">>
W_space == <<"s", "p", "a", "c", "e">>
W_spc == <<"s", "p", "c">>
W_tab == <<"t", "a", "b">>
W_backtab == <<"b", "a", "c", "k", "t", "a", "b">>
W_btab == <<"b", "t", "a", "b">>
W_backspace == <<"b", "a", "c", "k", "s", "p", "a", "c", "e">>
W_bs == <<"b", "s">>
W_delete == <<"d", "e", "l", "e", "t", "e">>
W_del == <<"d", "e", "l">>
W_insert == <<"i", "n", "s", "e", "r", "t">>
W_ins == <<"i", "n", "s">>
W_home == <<"h", "o", "m", "e">>
W_end == <<"e", "n", "d">>
W_pageup == <<"p", "a", "g", "e", "u", "p">>
W_pgup == <<"p", "g", "u", "p">>
W_pagedown == <<"p", "a", "g", "e", "d", "o", "w", "n">>
W_pgdn == <<"p", "g", "d", "n">>
W_up == <<"u", "p">>
W_down == <<"d", "o", "w", "n">>
W_left == <<"l", "e", "f", "t">>
W_right == <<"r", "i", "g", "h", "t">>
W_unknown == <<"u", "n", "k", "n", "o", "w", "n">>

\* lines 86-91 and 97-102: the modifier named by a part, None when unknown
modifier_of(part) ==
    IF part \in {W_ctrl, W_control, <<"c">>} THEN Some(CONTROL)
    ELSE IF part \in {W_alt, <<"a">>, W_meta, <<"m">>} THEN Some(ALT)
    ELSE IF part \in {W_shift, <<"s">>} THEN Some(SHIFT)
    ELSE None

\* parse_key giving Key::Null for a name it does not know
parse_key_lenient(s) ==
    IF s \in {W_esc, W_escape} THEN Ok(Key_Plain("Esc"))
    ELSE IF s \in {W_enter, W_return, W_cr} THEN Ok(Key_Plain("Enter"))
    ELSE IF s \in {W_space, W_spc} THEN Ok(Key_Char(" "))
    ELSE IF s = W_tab THEN Ok(Key_Plain("Tab"))
    ELSE IF s \in {W_backtab, W_btab} THEN Ok(Key_Plain("BackTab"))
    ELSE IF s \in {W_backspace, W_bs} THEN Ok(Key_Plain("Backspace"))
    ELSE IF s \in {W_delete, W_del} THEN Ok(Key_Plain("Delete"))
    ELSE IF s \in {W_insert, W_ins} THEN Ok(Key_Plain("Insert"))
    ELSE IF s = W_home THEN Ok(Key_Plain("Home"))
    ELSE IF s = W_end THEN Ok(Key_Plain("End"))
    ELSE IF s \in {W_pageup, W_pgup} THEN Ok(Key_Plain("PageUp"))
    ELSE IF s \in {W_pagedown, W_pgdn} THEN Ok(Key_Plain("PageDown"))
    ELSE IF s = W_up THEN Ok(Key_Plain("Up"))
    ELSE IF s = W_down THEN Ok(Key_Plain("Down"))
    ELSE IF s = W_left THEN Ok(Key_Plain("Left"))
    ELSE IF s = W_right THEN Ok(Key_Plain("Right"))
    ELSE IF \E n \in 1..12 : s = <<"f">> \o decimal(n)
    THEN Ok(Key_Function(CHOOSE n \in 1..12 : s = <<"f">> \o decimal(n)))
    ELSE IF str_len(s) = 1 THEN Ok(Key_Char(s[1]))
    ELSE Ok(Key_Plain("Null"))

\* lines 114-153
parse_key(s) ==
    IF s \in {W_esc, W_escape} THEN Ok(Key_Plain("Esc"))
    ELSE IF s \in {W_enter, W_return, W_cr} THEN Ok(Key_Plain("Enter"))
    ELSE IF s \in {W_space, W_spc} THEN Ok(Key_Char(" "))
    ELSE IF s = W_tab THEN Ok(Key_Plain("Tab"))
    ELSE IF s \in {W_backtab, W_btab} THEN Ok(Key_Plain("BackTab"))
    ELSE IF s \in {W_backspace, W_bs} THEN Ok(Key_Plain("Backspace"))
    ELSE IF s \in {W_delete, W_del} THEN Ok(Key_Plain("Delete"))
    ELSE IF s \in {W_insert, W_ins} THEN Ok(Key_Plain("Insert"))
    ELSE IF s = W_home THEN Ok(Key_Plain("Home"))
    ELSE IF s = W_end THEN Ok(Key_Plain("End"))
    ELSE IF s \in {W_pageup, W_pgup} THEN Ok(Key_Plain("PageUp"))
    ELSE IF s \in {W_pagedown, W_pgdn} THEN Ok(Key_Plain("PageDown"))
    ELSE IF s = W_up THEN Ok(Key_Plain("Up"))
    ELSE IF s = W_down THEN Ok(Key_Plain("Down"))
    ELSE IF s = W_left THEN Ok(Key_Plain("Left"))
    ELSE IF s = W_right THEN Ok(Key_Plain("Right"))
    ELSE IF \E n \in 1..12 : s = <<"f">> \o decimal(n)
    THEN Ok(Key_Function(CHOOSE n \in 1..12 : s = <<"f">> \o decimal(n)))
    ELSE IF str_len(s) = 1 THEN Ok(Key_Char(s[1]))
    ELSE Err([msg |-> "Unknown key", detail |-> s])

\* lines 74-111: KeyBinding::from_str
from_str(input) ==
    LET s == to_lowercase(trim(input))
        parts == split(s, "+")
        m1 == modifier_of(parts[1])
        m2 == modifier_of(parts[2])
    IN  IF Len(parts) = 1
        THEN LET key == parse_key(parts[1])
             IN  IF key.ok THEN Ok(KeyBinding_new(key.value, NONE)) ELSE key
        ELSE IF Len(parts) = 2
        THEN IF m1 = None
             THEN Err([msg |-> "Unknown modifier", detail |-> parts[1]])
             ELSE LET key == parse_key(parts[2])
                  IN  IF key.ok THEN Ok(KeyBinding_new(key.value, m1[1])) ELSE key
        ELSE IF Len(parts) = 3
        THEN IF m1 = None
             THEN Err([msg |-> "Unknown modifier", detail |-> parts[1]])
             ELSE IF m2 = None
             THEN Err([msg |-> "Unknown modifier", detail |-> parts[2]])
             ELSE LET key == parse_key(parts[3])
                  IN  IF key.ok
                      THEN Ok(KeyBinding_new(key.value, (NONE \cup m1[1]) \cup m2[1]))
                      ELSE key
        ELSE Err([msg |-> "Invalid key binding format", detail |-> s])

\* lines 155-177
key_to_string(key) ==
    IF key.kind = "Esc" THEN W_esc
    ELSE IF key.kind = "Enter" THEN W_enter
    ELSE IF key.kind = "Char" THEN (IF key.c = " " THEN W_space ELSE <<key.c>>)
    ELSE IF key.kind = "Tab" THEN W_tab
    ELSE IF key.kind = "BackTab" THEN W_backtab
    ELSE IF key.kind = "Backspace" THEN W_backspace
    ELSE IF key.kind = "Delete" THEN W_delete
    ELSE IF key.kind = "Insert" THEN W_insert
    ELSE IF key.kind = "Home" THEN W_home
    ELSE IF key.kind = "End" THEN W_end
    ELSE IF key.kind = "PageUp" THEN W_pageup
    ELSE IF key.kind = "PageDown" THEN W_pagedown
    ELSE IF key.kind = "Up" THEN W_up
    ELSE IF key.kind = "Down" THEN W_down
    ELSE IF key.kind = "Left" THEN W_left
    ELSE IF key.kind = "Right" THEN W_right
    ELSE IF key.kind = "Function" THEN <<"f">> \o decimal(key.n)
    ELSE W_unknown

to_string_shift_first(kb) ==
    LET p1 == IF "SHIFT" \in kb.modifiers THEN <<W_shift>> ELSE <<>>
        p2 == IF "ALT" \in kb.modifiers THEN Append(p1, W_alt) ELSE p1
        p3 == IF "CONTROL" \in kb.modifiers THEN Append(p2, W_ctrl) ELSE p2
    IN  join(Append(p3, key_to_string(kb.key)), "+")

\* lines 179-196: Display for KeyBinding, hence to_string
to_string(kb) ==
    LET p1 == IF "CONTROL" \in kb.modifiers THEN <<W_ctrl>> ELSE <<>>
        p2 == IF "ALT" \in kb.modifiers THEN Append(p1, W_alt) ELSE p1
        p3 == IF "SHIFT" \in kb.modifiers THEN Append(p2, W_shift) ELSE p2
    IN  join(Append(p3, key_to_string(kb.key)), "+")

matches_contains(kb, key, modifiers) == kb.key = key /\ kb.modifiers \subseteq modifiers

\* lines 56-58: KeyBinding::matches
matches(kb, key, modifiers) == kb.key = key /\ kb.modifiers = modifiers

\* keybindings_helper.rs lines 10-12
key_matches(event, binding) ==
    event.code = binding.key /\ event.modifiers = binding.modifiers

\* auth/components/mod.rs lines 36-38 and setup/components/mod.rs lines 25-27
binding_matches(event, binding) ==
    event.code = binding.key /\ event.modifiers = binding.modifiers

---------------------------------------------------------------------------
(* The provider of key bindings (src/system/keybindings_provider.rs).      *)
(* KeyBindings is reduced to two of its fields, explorer.move_up and       *)
(* global.quit; a file holds nothing readable (Garbage) or one string per  *)
(* field.                                                                  *)

Fields == {"move_up", "quit"}

\* keybindings.rs lines 61-68
KeyBinding_default == KeyBinding_new(Key_Plain("Null"), NONE)

\* keybindings.rs lines 295-299 and 364-368
KeyBindings_default ==
    [move_up |-> simple(Key_Plain("Up")), quit |-> simple(Key_Char("q"))]

\* keybindings.rs lines 451-463 (move_up and quit_alt of vim_style)
VimStyle == [move_up |-> simple(Key_Char("k")), quit |-> simple(Key_Char("Q"))]

\* the values a caller writes through keybindings_mut()
AssignedBindings ==
    {VimStyle.move_up, VimStyle.quit, ctrl(Key_Char("u")), KeyBinding_default}

Absent == [exists |-> FALSE]
Written(content) == [exists |-> TRUE, content |-> content]
Garbage == [bytes |-> <<"?">>]

\* keybindings.rs lines 198-205: Serialize for KeyBinding
KeyBinding_serialize(kb) == to_string(kb)

\* keybindings.rs lines 207-231: Deserialize for KeyBinding
KeyBinding_deserialize(value) == from_str(value)

\* config::serialization::serialize: every field through its Serialize
serialize(keybindings) ==
    Ok([f \in Fields |-> KeyBinding_serialize(keybindings[f])])

\* config::serialization::deserialize: every field through its Deserialize
deserialize(content) ==
    IF content = Garbage
    THEN Err("Syntax")
    ELSE IF \E f \in Fields : ~KeyBinding_deserialize(content[f]).ok
    THEN Err("Syntax")
    ELSE Ok([f \in Fields |-> KeyBinding_deserialize(content[f]).value])

NoOperation == [op |-> "none"]
FileCall(op, ok) == [op |-> op, ok |-> ok]

\* the outcome of an operation: the provider and the file after it, its
\* result and the file calls it made
Outcome(p, f, r, calls) == [provider |-> p, file |-> f, result |-> r, calls |-> calls]

\* load falling back to the defaults when the file cannot be opened or read
load_failure_resets(p, f, acc) ==
    IF p.degraded
    THEN Outcome([p EXCEPT !.keybindings = KeyBindings_default], f,
                 Err("Generic"), <<>>)
    ELSE IF ~(acc /\ f.exists)
    THEN Outcome([p EXCEPT !.keybindings = KeyBindings_default], f, Err("Io"),
                 <<FileCall("open_read", FALSE)>>)
    ELSE LET d == deserialize(f.content)
         IN  IF d.ok
             THEN Outcome([p EXCEPT !.keybindings = d.value], f, Ok(<<>>),
                          <<FileCall("open_read", TRUE), FileCall("read", TRUE)>>)
             ELSE Outcome([p EXCEPT !.keybindings = KeyBindings_default], f, d,
                          <<FileCall("open_read", TRUE), FileCall("read", FALSE)>>)

load_degraded_keeps(p, f, acc) ==
    IF p.degraded
    THEN Outcome(p, f, Err("Generic"), <<>>)
    ELSE IF ~(acc /\ f.exists)
    THEN Outcome(p, f, Err("Io"), <<FileCall("open_read", FALSE)>>)
    ELSE LET d == deserialize(f.content)
         IN  IF d.ok
             THEN Outcome([p EXCEPT !.keybindings = d.value], f, Ok(<<>>),
                          <<FileCall("open_read", TRUE), FileCall("read", TRUE)>>)
             ELSE Outcome(p, f, d,
                          <<FileCall("open_read", TRUE), FileCall("read", FALSE)>>)

\* lines 76-109
load(p, f, acc) ==
    IF p.degraded
    THEN Outcome([p EXCEPT !.keybindings = KeyBindings_default], f,
                 Err("Generic"), <<>>)
    ELSE IF ~(acc /\ f.exists)
    THEN Outcome(p, f, Err("Io"), <<FileCall("open_read", FALSE)>>)
    ELSE LET d == deserialize(f.content)
         IN  IF d.ok
             THEN Outcome([p EXCEPT !.keybindings = d.value], f, Ok(<<>>),
                          <<FileCall("open_read", TRUE), FileCall("read", TRUE)>>)
             ELSE Outcome(p, f, d,
                          <<FileCall("open_read", TRUE), FileCall("read", FALSE)>>)

\* lines 112-137
save(p, f, acc) ==
    IF p.degraded
    THEN Outcome(p, f, Err("Generic"), <<>>)
    ELSE IF ~acc
    THEN Outcome(p, f, Err("Io"), <<FileCall("open_write", FALSE)>>)
    ELSE LET w == serialize(p.keybindings)
         IN  Outcome(p, Written(w.value), Ok(<<>>),
                     <<FileCall("open_write", TRUE), FileCall("write", TRUE)>>)

\* Path::exists: a path that cannot be reached does not exist
keybindings_path_exists(f, acc) == acc /\ f.exists

\* lines 52-58
degraded == [keybindings |-> KeyBindings_default, degraded |-> TRUE]

new_falls_back(f, acc) ==
    LET fresh == [keybindings |-> KeyBindings_default, degraded |-> FALSE]
        e == keybindings_path_exists(f, acc)
        o == IF ~e THEN save(fresh, f, acc) ELSE load(fresh, f, acc)
    IN  Outcome(IF o.result.ok THEN Some(o.provider) ELSE Some(degraded), o.file,
                o.result, <<FileCall("exists", e)>> \o o.calls)

\* lines 20-48: the provider is None when new returns Err
new(f, acc) ==
    LET fresh == [keybindings |-> KeyBindings_default, degraded |-> FALSE]
        e == keybindings_path_exists(f, acc)
        o == IF ~e THEN save(fresh, f, acc) ELSE load(fresh, f, acc)
    IN  Outcome(IF o.result.ok THEN Some(o.provider) ELSE None, o.file,
                o.result, <<FileCall("exists", e)>> \o o.calls)

\* lines 69-71 and the assignment the caller makes through the reference
keybindings_mut(p, f, kb) == [p EXCEPT !.keybindings[f] = kb]

NoCall == [op |-> "none"]

---------------------------------------------------------------------------
(* The state machine *)

SeqsUpTo(S, n) == UNION {[1..k -> S] : k \in 0..n}

Become(s) ==
    /\ pc' = s.pc
    /\ i' = s.i
    /\ hosts' = s.hosts
    /\ remote_args' = s.remote_args
    /\ result' = s.result
    /\ io' = s.io
    /\ resolved' = s.resolved
    /\ UNCHANGED <<args, ssh_config, key_vars, provider_vars>>

\* no KeyBinding call made, no provider built
KeyIdle == key_call = NoCall

ProviderIdle ==
    /\ provider = None
    /\ file = Absent
    /\ access = TRUE
    /\ last = NoOperation
    /\ saved = None

Init ==
    /\ KeyIdle
    /\ ProviderIdle
    /\ \E all \in SeqsUpTo(Texts, MaxArgs) :
         \E nb \in 0..Len(all) :
           \E ns \in nb..Len(all) :
             \E pw \in SeqsUpTo(Passwords, MaxPasswords) :
               args = [bookmark |-> SubSeq(all, 1, nb),
                       ssh_host |-> SubSeq(all, nb + 1, ns),
                       positional |-> SubSeq(all, ns + 1, Len(all)),
                       password |-> pw]
    /\ ssh_config \in SshConfigs
    /\ pc = start.pc
    /\ i = start.i
    /\ hosts = start.hosts
    /\ remote_args = start.remote_args
    /\ result = start.result
    /\ io = start.io
    /\ resolved = start.resolved

Validate ==
    /\ pc = "validate"
    /\ Become(validate(args, Locals))

LocalDir ==
    /\ pc = "loop"
    /\ i < total_hosts(args)
    /\ is_local_dir(args, Locals)
    /\ Become(loop_body(args, ssh_config, Locals))

ResolveAddress ==
    /\ pc = "loop"
    /\ i < total_hosts(args)
    /\ ~is_local_dir(args, Locals)
    /\ chain(args)[i + 1].addr_type = "Address"
    /\ Become(loop_body(args, ssh_config, Locals))

ResolveBookmark ==
    /\ pc = "loop"
    /\ i < total_hosts(args)
    /\ ~is_local_dir(args, Locals)
    /\ chain(args)[i + 1].addr_type = "Bookmark"
    /\ Become(loop_body(args, ssh_config, Locals))

ResolveSshHost ==
    /\ pc = "loop"
    /\ i < total_hosts(args)
    /\ ~is_local_dir(args, Locals)
    /\ chain(args)[i + 1].addr_type = "SshHost"
    /\ Become(loop_body(args, ssh_config, Locals))

SetArgs ==
    /\ pc = "loop"
    /\ i >= total_hosts(args)
    /\ Become(set_args(Locals))

Next ==
    \/ Validate
    \/ LocalDir
    \/ ResolveAddress
    \/ ResolveBookmark
    \/ ResolveSshHost
    \/ SetArgs

Spec == Init /\ [][Next]_vars

\* the resolver at rest, while the key bindings or the provider are exercised
ResolverIdle ==
    /\ args = [bookmark |-> <<>>, ssh_host |-> <<>>, positional |-> <<>>,
               password |-> <<>>]
    /\ ssh_config = Err(<<"unreadable">>)
    /\ pc = start.pc
    /\ i = start.i
    /\ hosts = start.hosts
    /\ remote_args = start.remote_args
    /\ result = start.result
    /\ io = start.io
    /\ resolved = start.resolved

---------------------------------------------------------------------------
(* The calls on a KeyBinding *)

MaxParts == 4

\* what stands between the '+' of the texts given to from_str
ModifierWords ==
    {W_ctrl, W_control, <<"c">>, W_alt, <<"a">>, W_meta, <<"m">>, W_shift, <<"s">>,
     <<"x">>}

KeyWords ==
    {W_esc, W_enter, W_cr, W_space, W_tab, W_up, W_pgdn, <<"f", "1">>,
     <<"f", "1", "2">>, <<"f", "1", "3">>, <<"j">>, <<"c">>, <<E_ACUTE>>,
     <<"j", "j">>, <<>>}

\* a text as a user may write it: capitals and blanks around it
Decorated(text) == <<" ">> \o to_uppercase(text) \o <<"\t", " ">>

Keys ==
    {Key_Plain(n) : n \in {"Esc", "Enter", "Tab", "Up", "PageDown", "Null"}}
        \cup {Key_Char(c) : c \in {"j", "Q", " ", "+", E_ACUTE}}
        \cup {Key_Function(n) : n \in {1, 10, 12}}

Modifiers == SUBSET {"CONTROL", "ALT", "SHIFT"}

Bindings == {KeyBinding_new(k, m) : k \in Keys, m \in Modifiers}

KeyEvents == [code : Keys, modifiers : Modifiers]

\* the bindings that occur in KeyBindings::default()
DefaultBindings ==
    {simple(Key_Plain(n)) : n \in {"Up", "Down", "PageUp", "PageDown", "Home", "End",
                                    "Backspace", "Enter", "Tab", "Esc"}}
        \cup {simple(Key_Char(c)) :
                 c \in {"u", "l", " ", "c", "r", "e", "d", "n", "o", "v", "w", "s", "z",
                        "k", "m", "a", "i", "b", "/", "f", "g", "x", "y", "t", "p",
                        "q", "h"}}
        \cup {ctrl(Key_Char(c)) : c \in {"a", "s", "t", "c", "h", "r"}}
        \cup {alt(Key_Char("a"))}
        \cup {simple(Key_Function(n)) : n \in {1, 4, 10}}

\* the bindings that occur in KeyBindings::vim_style()
VimStyleBindings ==
    {simple(Key_Plain(n)) : n \in {"Esc", "Enter", "Tab"}}
        \cup {simple(Key_Char(c)) :
                 c \in {"q", "Q", "?", "k", "j", "g", "G", "h", "-", "l", "p", "c", "r",
                        "d", "a", "A", "e", "o", "O", "S", "z", "K", " ", "V", "u",
                        ".", "i", "I", "s", "F", "/", ":", "!", "y", "w", "W"}}
        \cup {ctrl(Key_Char(c)) : c \in {"u", "d", "r", "q", "c", "n", "s", "w"}}
        \cup {simple(Key_Function(1))}

\* the call to make: the operation and its inputs, no output yet
IsPendingCall(call) ==
    \/ \E n \in 0..(MaxParts - 1) :
         \E ms \in [1..n -> ModifierWords] :
           \E k \in KeyWords :
             \/ call = [op |-> "from_str", input |-> join(Append(ms, k), "+"),
                        output |-> None]
             \/ /\ n <= 1
                /\ call = [op |-> "from_str",
                           input |-> Decorated(join(Append(ms, k), "+")),
                           output |-> None]
    \/ \E kb \in Bindings :
         call = [op |-> "to_string", binding |-> kb, output |-> None]
    \/ \E kb \in DefaultBindings \cup VimStyleBindings :
         call = [op |-> "write_and_read", binding |-> kb, output |-> None]
    \/ \E o \in {"matches", "key_matches", "binding_matches"} :
         \E kb \in Bindings, ev \in KeyEvents :
           call = [op |-> o, binding |-> kb, event |-> ev, output |-> None]

Return(v) ==
    /\ key_call' = [key_call EXCEPT !.output = Some(v)]
    /\ UNCHANGED <<resolver_vars, provider_vars>>

CallFromStr ==
    /\ key_call.op = "from_str"
    /\ key_call.output = None
    /\ Return(from_str(key_call.input))

CallToString ==
    /\ key_call.op = "to_string"
    /\ key_call.output = None
    /\ Return(to_string(key_call.binding))

CallMatches ==
    /\ key_call.op = "matches"
    /\ key_call.output = None
    /\ Return(matches(key_call.binding, key_call.event.code, key_call.event.modifiers))

CallKeyMatches ==
    /\ key_call.op = "key_matches"
    /\ key_call.output = None
    /\ Return(key_matches(key_call.event, key_call.binding))

CallBindingMatches ==
    /\ key_call.op = "binding_matches"
    /\ key_call.output = None
    /\ Return(binding_matches(key_call.event, key_call.binding))

\* a binding written to the file by Serialize and read back by Deserialize
CallWriteAndRead ==
    /\ key_call.op = "write_and_read"
    /\ key_call.output = None
    /\ Return(KeyBinding_deserialize(KeyBinding_serialize(key_call.binding)))

KeyInit ==
    /\ ResolverIdle
    /\ ProviderIdle
    /\ IsPendingCall(key_call)

KeyNext ==
    \/ CallFromStr
    \/ CallToString
    \/ CallMatches
    \/ CallKeyMatches
    \/ CallBindingMatches
    \/ CallWriteAndRead

KeySpec == KeyInit /\ [][KeyNext]_vars

---------------------------------------------------------------------------
(* The operations on a KeyBindingsProvider *)

\* what may be at keybindings_path before the program first runs
InitialFiles == {Absent, Written(Garbage), Written(serialize(VimStyle).value)}

\* an operation on the provider p: its outcome becomes the state
Operate(op, o) ==
    /\ provider' = o.provider
    /\ file' = o.file
    /\ last' = [op |-> op, before |-> provider, result |-> o.result, calls |-> o.calls]
    /\ saved' = IF \E k \in 1..Len(o.calls) : o.calls[k] = FileCall("write", TRUE)
                THEN Some(o.provider[1].keybindings)
                ELSE saved
    /\ UNCHANGED <<resolver_vars, key_vars, access>>

New ==
    \E o \in {new(file, access)} :
      Operate("new", o)

Degraded ==
    \E p \in {degraded} :
      Operate("degraded", Outcome(Some(p), file, Ok(<<>>), <<>>))

KeybindingsMut ==
    /\ provider # None
    /\ \E f \in Fields, kb \in AssignedBindings :
         Operate("keybindings_mut",
                 Outcome(Some(keybindings_mut(provider[1], f, kb)), file, Ok(<<>>), <<>>))

Load ==
    /\ provider # None
    /\ LET o == load(provider[1], file, access)
       IN  Operate("load", [o EXCEPT !.provider = Some(o.provider)])

Save ==
    /\ provider # None
    /\ LET o == save(provider[1], file, access)
       IN  Operate("save", [o EXCEPT !.provider = Some(o.provider)])

\* the environment: keybindings_path becomes unreachable, or reachable again
AccessChanges ==
    /\ access' = ~access
    /\ UNCHANGED <<resolver_vars, key_vars, provider, file, last, saved>>

ProviderInit ==
    /\ ResolverIdle
    /\ KeyIdle
    /\ provider = None
    /\ file \in InitialFiles
    /\ access \in BOOLEAN
    /\ last = NoOperation
    /\ saved = None

ProviderNext ==
    \/ New
    \/ Degraded
    \/ KeybindingsMut
    \/ Load
    \/ Save
    \/ AccessChanges

ProviderSpec == ProviderInit /\ [][ProviderNext]_vars

---------------------------------------------------------------------------
(* Vocabulary of the properties, stated on the input and the outcome *)

TokenCount == Len(args.bookmark) + Len(args.ssh_host) + Len(args.positional)

\* class and text of the token at ordinal k (from 0) of bookmarks, aliases, positionals
TokenClass(k) ==
    IF k < Len(args.bookmark) THEN "Bookmark"
    ELSE IF k < Len(args.bookmark) + Len(args.ssh_host) THEN "SshHost"
    ELSE "Address"

TokenText(k) ==
    IF k < Len(args.bookmark) THEN args.bookmark[k + 1]
    ELSE IF k < Len(args.bookmark) + Len(args.ssh_host)
    THEN args.ssh_host[k + 1 - Len(args.bookmark)]
    ELSE args.positional[k + 1 - Len(args.bookmark) - Len(args.ssh_host)]

Returned == pc = "done"
Succeeded == pc = "done" /\ result.ok
Failed == pc = "done" /\ ~result.ok

TooManyArguments == Err([msg |-> "Too many arguments", detail |-> <<>>])

\* a resolved Remote is the one its token's class asks for
FromToken(r, k) ==
    /\ k \in 0..(TokenCount - 1)
    /\ TokenClass(k) = "Bookmark" =>
         r.kind = "Bookmark" /\ r.params.name = TokenText(k)
    /\ TokenClass(k) = "Address" =>
         r.kind = "Host" /\ r.params.file_transfer_params.address = TokenText(k)
    /\ TokenClass(k) = "SshHost" =>
         r.kind = "Host" /\ r.params.file_transfer_params.protocol = "Sftp"

---------------------------------------------------------------------------
(* C1: more than 3 tokens in total always ends in the 'Too many arguments'
   error, with no filesystem check, address parse or SSH-config read made and
   no host resolved; with 3 tokens or fewer that error is never returned. *)
C1_TooManyArguments ==
    /\ TokenCount > 3 => /\ io = <<>>
                         /\ resolved = <<>>
                         /\ pc \in {"validate", "done"}
                         /\ Returned => result = TooManyArguments
    /\ TokenCount <= 3 => result # TooManyArguments

C1_Witness == Returned /\ TokenCount = 4 /\ result = TooManyArguments /\ io = <<>>

(* C2: when exactly two tokens were resolved as hosts, the target (remote) is
   the host of the lower-ordinal token and the bridge (host_bridge) the host
   of the higher-ordinal one, whatever their classes. *)
C2_TwoHostsRoles ==
    (Succeeded /\ Len(resolved) = 2) =>
        /\ resolved[1].i < resolved[2].i
        /\ FromToken(resolved[1].remote, resolved[1].i)
        /\ FromToken(resolved[2].remote, resolved[2].i)
        /\ result.value.remote = resolved[1].remote
        /\ result.value.host_bridge = resolved[2].remote

C2_Witness ==
    /\ Succeeded
    /\ Len(args.bookmark) = 1 /\ Len(args.ssh_host) = 0 /\ Len(args.positional) = 1
    /\ result.value.remote.kind = "Bookmark"
    /\ result.value.host_bridge.kind = "Host"

(* C3: when fewer than two tokens were resolved as hosts the bridge is None;
   the target is the single resolved host, or None when there is none; a call
   with no token at all returns the default plan and checks no path. *)
C3_FewerThanTwoHosts ==
    /\ (Succeeded /\ Len(resolved) < 2) =>
          /\ result.value.host_bridge = RemoteNone
          /\ Len(resolved) = 1 =>
                /\ result.value.remote = resolved[1].remote
                /\ FromToken(resolved[1].remote, resolved[1].i)
          /\ Len(resolved) = 0 => result.value.remote = RemoteNone
    /\ (Returned /\ TokenCount = 0) =>
          /\ result = Ok([host_bridge |-> RemoteNone, remote |-> RemoteNone,
                          local_dir |-> None])
          /\ io = <<>>

C3_Witness ==
    /\ Succeeded
    /\ TokenCount = 1 /\ Len(args.positional) = 1
    /\ result.value.remote.kind = "Host"
    /\ result.value.host_bridge = RemoteNone
    /\ result.value.local_dir = None

(* C5: a successful call with at most 3 tokens resolved at most 2 of them
   into Remote values; with 3 tokens the third became local_dir. *)
C5_AtMostTwoResolved ==
    (Succeeded /\ TokenCount <= 3) =>
        /\ Len(resolved) <= 2
        /\ Len(hosts) <= 2
        /\ TokenCount = 3 => result.value.local_dir = Some(TokenText(2))

(* C6: in a returned plan the target (remote) is None only if no token was
   resolved as a host. *)
C6_TargetUnlessNoHost ==
    (Succeeded /\ Len(resolved) >= 1) => ~is_none(result.value.remote)

(* C7: in a returned plan a bridge (host_bridge) that is not None comes with a
   target (remote) that is not None. *)
C7_BridgeNeedsTarget ==
    /\ ~is_none(remote_args.host_bridge) => ~is_none(remote_args.remote)
    /\ Succeeded =>
         /\ result.value = remote_args
         /\ ~is_none(result.value.host_bridge) => ~is_none(result.value.remote)

C7_Witness ==
    /\ Succeeded
    /\ ~is_none(result.value.host_bridge)
    /\ ~is_none(result.value.remote)

---------------------------------------------------------------------------
(* The same call with the last token of the concatenated sequence left out *)

DropLast(xs) == SubSeq(xs, 1, Len(xs) - 1)

WithoutLast(a) ==
    IF a.positional # <<>> THEN [a EXCEPT !.positional = DropLast(a.positional)]
    ELSE IF a.ssh_host # <<>> THEN [a EXCEPT !.ssh_host = DropLast(a.ssh_host)]
    ELSE [a EXCEPT !.bookmark = DropLast(a.bookmark)]

\* what a finished call says about target and bridge
Roles(s) ==
    IF s.result.ok
    THEN [remote |-> s.result.value.remote, host_bridge |-> s.result.value.host_bridge]
    ELSE s.result

LastNamesPath ==
    /\ TokenCount \in 1..3
    /\ TokenText(TokenCount - 1) \in ExistingPaths

\* the last token is taken as local_dir and never resolved, parsed or looked up
LastTakenAsLocalDir ==
    /\ \A k \in 1..Len(resolved) : resolved[k].i # TokenCount - 1
    /\ \A k \in 1..Len(io) :
         io[k].i = TokenCount - 1 => io[k].op = "exists" /\ io[k].ok
    /\ Succeeded => result.value.local_dir = Some(TokenText(TokenCount - 1))
    /\ Failed => /\ io # <<>>
                 /\ io[Len(io)].i < TokenCount - 1

SameRolesWithoutLast ==
    Returned => Roles(Locals) = Roles(try_from(WithoutLast(args), ssh_config))

(* C4, as claimed: a last token naming an existing path becomes local_dir, is
   not resolved, parsed or looked up, and target and bridge are those of the
   same call without that token. *)
C4_LastPathAsIfAbsent ==
    LastNamesPath => LastTakenAsLocalDir /\ SameRolesWithoutLast

(* C4, amended: a last token naming an existing path becomes local_dir and is
   not resolved, parsed or looked up; target and bridge are those of the same
   call without that token provided the token before it, if any, does not
   name an existing path too. *)
C4_LastPathAsIfAbsentUnlessPathBefore ==
    LastNamesPath =>
        /\ LastTakenAsLocalDir
        /\ (TokenCount = 1 \/ TokenText(TokenCount - 2) \notin ExistingPaths)
              => SameRolesWithoutLast

C4_Witness ==
    /\ Succeeded
    /\ TokenCount = 3
    /\ LastNamesPath
    /\ TokenText(1) \notin ExistingPaths
    /\ result.value.local_dir = Some(Home)
    /\ result.value.remote.kind = "Host"
    /\ result.value.host_bridge.kind = "Host"

(* C8: tokens are taken bookmarks first, then SSH aliases, then positionals,
   each class in input order; only the last of that sequence is checked
   against the filesystem, so a bookmark is never taken as local_dir when an
   alias or a positional is given, and one bookmark with one positional
   address makes the bookmark the target. *)
C8_ClassOrder ==
    /\ \A k \in 1..Len(resolved) :
         /\ resolved[k].i = k - 1
         /\ FromToken(resolved[k].remote, k - 1)
    /\ \A k \in 1..Len(io) :
         /\ io[k].op = "exists" => io[k].i = TokenCount - 1
         /\ io[k].op = "parse_remote_opt" => TokenClass(io[k].i) = "Address"
         /\ io[k].op = "parse_default_file" => TokenClass(io[k].i) = "SshHost"
         /\ \A j \in 1..(k - 1) : io[j].i <= io[k].i
    /\ (remote_args.local_dir # None /\ args.positional # <<>>) =>
         remote_args.local_dir = Some(args.positional[Len(args.positional)])
    /\ (remote_args.local_dir # None /\ args.positional = <<>> /\ args.ssh_host # <<>>) =>
         remote_args.local_dir = Some(args.ssh_host[Len(args.ssh_host)])
    /\ (Succeeded /\ Len(args.bookmark) = 1 /\ args.ssh_host = <<>>
          /\ Len(args.positional) = 1) =>
         /\ result.value.remote.kind = "Bookmark"
         /\ result.value.remote.params.name = args.bookmark[1]

C8_Witness ==
    /\ Succeeded
    /\ args.bookmark = <<Home>> /\ args.ssh_host = <<>> /\ args.positional = <<HostA>>
    /\ result.value.remote.kind = "Bookmark"
    /\ result.value.host_bridge.kind = "Host"
    /\ result.value.local_dir = None

\* the password the token at ordinal k (from 0) is to carry
PasswordAt(k) == IF k < Len(args.password) THEN <<args.password[k + 1]>> ELSE <<>>

(* C9: the host resolved from the token at ordinal k carries password[k] when
   there is one and no password otherwise, whatever its class and whether it
   becomes target or bridge; a token taken as local_dir shifts nothing. *)
C9_PasswordByOrdinal ==
    /\ \A k \in 1..Len(resolved) :
         resolved[k].remote.params.password = PasswordAt(resolved[k].i)
    /\ \A k \in 1..Len(hosts) : hosts[k].params.password = PasswordAt(k - 1)
    /\ ~is_none(remote_args.remote) =>
         remote_args.remote.params.password = PasswordAt(0)
    /\ ~is_none(remote_args.host_bridge) =>
         remote_args.host_bridge.params.password = PasswordAt(1)

C9_Witness ==
    /\ Succeeded
    /\ args.bookmark = <<>> /\ args.ssh_host = <<>> /\ Len(args.positional) = 2
    /\ Len(args.password) = 1
    /\ result.value.remote.params.password = <<args.password[1]>>
    /\ result.value.host_bridge.kind = "Host"
    /\ result.value.host_bridge.params.password = <<>>

(* C10: when the address parser rejects a positional token, the call returns
   the 'Bad address option' error and no plan; a plan is returned only if
   every positional token that was not taken as local_dir is accepted. *)
C10_BadAddressNoPlan ==
    /\ (\E k \in 1..Len(io) : io[k].op = "parse_remote_opt" /\ ~io[k].ok) =>
         /\ pc = "done"
         /\ DOMAIN result = {"ok", "err"}
         /\ ~result.ok
         /\ result.err.msg = "Bad address option"
    /\ Succeeded =>
         \A k \in 0..(TokenCount - 1) :
            (TokenClass(k) = "Address" /\ TokenText(k) \in RejectedAddresses) =>
               /\ k = TokenCount - 1
               /\ TokenText(k) \in ExistingPaths

C10_Witness ==
    /\ Failed
    /\ result.err.msg = "Bad address option"
    /\ Len(resolved) = 1
    /\ Len(io) >= 2

---------------------------------------------------------------------------
(* SSH aliases, stated on the token text and the configuration entries *)

\* the text before the first ':' and the text after it
AliasOf(text) ==
    SubSeq(text, 1, Cardinality({k \in 1..Len(text) : \A j \in 1..k : text[j] # ":"}))

RestOf(text) == SubSeq(text, Len(AliasOf(text)) + 2, Len(text))

\* positions of the configuration entries with a plain pattern equal to alias
EntriesFor(alias) ==
    {k \in 1..Len(SshHosts) :
        \E p \in 1..Len(SshHosts[k].pattern) :
            /\ SshHosts[k].pattern[p].pattern = alias
            /\ SshHosts[k].pattern[p].negated = FALSE}

FirstEntryFor(alias) ==
    SshHosts[CHOOSE k \in EntriesFor(alias) : \A j \in EntriesFor(alias) : k <= j]

\* ordinals of the SSH-alias tokens whose resolution was attempted
LookedUp == {io[k].i : k \in {j \in 1..Len(io) : io[j].op = "parse_default_file"}}

ResolvedAt(k) == \E j \in 1..Len(resolved) : resolved[j].i = k
RemoteAt(k) == resolved[CHOOSE j \in 1..Len(resolved) : resolved[j].i = k].remote

(* C11: an SSH-alias token is looked up by the text before its first ':'; an
   unreadable configuration fails the call with the configuration error;
   otherwise the token resolves exactly when an entry has a pattern that is
   not negated and equals the alias, the first such entry being used, and
   fails with the host-not-found error naming the alias when none has. *)
C11_SshAliasLookup ==
    \A k \in LookedUp :
        LET alias == AliasOf(TokenText(k))
        IN  /\ TokenClass(k) = "SshHost"
            /\ ~ssh_config.ok =>
                 /\ ~ResolvedAt(k)
                 /\ Failed
                 /\ result.err.msg = "Could not parse SSH config"
            /\ (ssh_config.ok /\ EntriesFor(alias) = {}) =>
                 /\ ~ResolvedAt(k)
                 /\ Failed
                 /\ result.err = [msg |-> "SSH host not found in ~/.ssh/config",
                                  detail |-> alias]
            /\ (ssh_config.ok /\ EntriesFor(alias) # {}) =>
                 /\ ResolvedAt(k)
                 /\ RemoteAt(k).kind = "Host"
                 /\ RemoteAt(k).params.file_transfer_params.username
                        = FirstEntryFor(alias).params.user
                 /\ FirstEntryFor(alias).params.port # None =>
                        RemoteAt(k).params.file_transfer_params.port
                            = FirstEntryFor(alias).params.port

C11_Witness ==
    /\ Failed
    /\ ssh_config.ok
    /\ args.ssh_host = <<HostAPath, Bad>>
    /\ Len(resolved) = 1
    /\ resolved[1].remote.params.file_transfer_params.port = <<2222>>
    /\ result.err = [msg |-> "SSH host not found in ~/.ssh/config", detail |-> Bad]

(* C12: a resolved SSH-alias token is an SFTP Host whose address is the
   entry's host_name or else the alias, whose port is the entry's port or
   else 22, whose username is the entry's user or none, and whose remote
   directory is the text after the first ':' when not empty, unset
   otherwise. *)
C12_SshAliasParams ==
    \A k \in LookedUp :
        ResolvedAt(k) =>
            LET alias == AliasOf(TokenText(k))
                rest == RestOf(TokenText(k))
                entry == FirstEntryFor(alias).params
                ftp == RemoteAt(k).params.file_transfer_params
            IN  /\ ftp.protocol = "Sftp"
                /\ ftp.address = IF entry.host_name = <<>> THEN alias ELSE entry.host_name[1]
                /\ ftp.port = IF entry.port = <<>> THEN <<22>> ELSE entry.port
                /\ ftp.username = entry.user
                /\ ftp.remote_path = IF rest = <<>> THEN <<>> ELSE <<rest>>

C12_Witness ==
    /\ Succeeded
    /\ args.ssh_host = <<HostAPath, Home>> /\ args.positional = <<Home>>
    /\ result.value.remote.params.file_transfer_params
         = [protocol |-> "Sftp", address |-> <<"a">>, port |-> <<2222>>,
            username |-> << <<"b">> >>, remote_path |-> << <<"d", ":", "e">> >>]
    /\ result.value.host_bridge.params.file_transfer_params
         = [protocol |-> "Sftp", address |-> <<"/">>, port |-> <<22>>,
            username |-> <<>>, remote_path |-> <<>>]

(* C13: one call checks the filesystem at most once and reads the SSH
   configuration file at most once, whatever the tokens. *)
C13_AtMostOneCheckOneRead ==
    /\ Cardinality({k \in 1..Len(io) : io[k].op = "exists"}) <= 1
    /\ Cardinality({k \in 1..Len(io) : io[k].op = "parse_default_file"}) <= 1

(* C14: a bookmark token that is not taken as local_dir resolves to a
   Bookmark named by its text, with no address parse and no configuration
   read; a call made of at most 3 bookmark names only never fails. *)
C14_BookmarkAlwaysResolves ==
    /\ \A k \in 1..Len(io) :
         TokenClass(io[k].i) = "Bookmark" =>
            io[k].op = "exists" /\ io[k].i = TokenCount - 1
    /\ \A k \in 1..Len(resolved) :
         TokenClass(resolved[k].i) = "Bookmark" =>
            /\ resolved[k].remote.kind = "Bookmark"
            /\ resolved[k].remote.params.name = TokenText(resolved[k].i)
    /\ (Returned /\ TokenCount <= 3) =>
         \A k \in 0..(TokenCount - 1) :
            (TokenClass(k) = "Bookmark" /\ (Succeeded \/ k < i)) =>
               \/ ResolvedAt(k)
               \/ k = TokenCount - 1 /\ TokenText(k) \in ExistingPaths
    /\ (Returned /\ TokenCount <= 3 /\ args.ssh_host = <<>> /\ args.positional = <<>>) =>
         result.ok

C14_Witness ==
    /\ Succeeded
    /\ args.bookmark = <<Home, Bad>> /\ args.ssh_host = <<>> /\ args.positional = <<>>
    /\ result.value.remote.kind = "Bookmark"
    /\ result.value.remote.params.name = Home
    /\ result.value.host_bridge.kind = "Bookmark"
    /\ result.value.host_bridge.params.name = Bad
    /\ \A k \in 1..Len(io) : io[k].op = "exists"

---------------------------------------------------------------------------
(* Vocabulary of the key-binding properties *)

FromStrReturned == key_call.op = "from_str" /\ key_call.output # None

\* the parts of the trimmed, lower-cased input of from_str
InputParts == split(to_lowercase(trim(key_call.input)), "+")

\* the modifier names and what they mean
ModifierNames ==
    {<<W_ctrl, "CONTROL">>, <<W_control, "CONTROL">>, <<<<"c">>, "CONTROL">>,
     <<W_alt, "ALT">>, <<<<"a">>, "ALT">>, <<W_meta, "ALT">>, <<<<"m">>, "ALT">>,
     <<W_shift, "SHIFT">>, <<<<"s">>, "SHIFT">>}

ModifiersNamed(word) == {p[2] : p \in {q \in ModifierNames : q[1] = word}}

\* the key names: the special names, f1..f12, any single character
SpecialNames ==
    {<<W_esc, Key_Plain("Esc")>>, <<W_escape, Key_Plain("Esc")>>,
     <<W_enter, Key_Plain("Enter")>>, <<W_return, Key_Plain("Enter")>>,
     <<W_cr, Key_Plain("Enter")>>,
     <<W_space, Key_Char(" ")>>, <<W_spc, Key_Char(" ")>>,
     <<W_tab, Key_Plain("Tab")>>,
     <<W_backtab, Key_Plain("BackTab")>>, <<W_btab, Key_Plain("BackTab")>>,
     <<W_backspace, Key_Plain("Backspace")>>, <<W_bs, Key_Plain("Backspace")>>,
     <<W_delete, Key_Plain("Delete")>>, <<W_del, Key_Plain("Delete")>>,
     <<W_insert, Key_Plain("Insert")>>, <<W_ins, Key_Plain("Insert")>>,
     <<W_home, Key_Plain("Home")>>, <<W_end, Key_Plain("End")>>,
     <<W_pageup, Key_Plain("PageUp")>>, <<W_pgup, Key_Plain("PageUp")>>,
     <<W_pagedown, Key_Plain("PageDown")>>, <<W_pgdn, Key_Plain("PageDown")>>,
     <<W_up, Key_Plain("Up")>>, <<W_down, Key_Plain("Down")>>,
     <<W_left, Key_Plain("Left")>>, <<W_right, Key_Plain("Right")>>}

KeysNamed(word) ==
    {p[2] : p \in {q \in SpecialNames : q[1] = word}}
        \cup {Key_Function(n) : n \in {m \in 1..12 : word = <<"f">> \o decimal(m)}}
        \cup {Key_Char(word[k]) : k \in {j \in {1} : Len(word) = 1}}

\* the input is one of the three forms: modifier names, then a key name
WellFormedInput ==
    /\ Len(InputParts) \in 1..3
    /\ \A k \in 1..(Len(InputParts) - 1) : ModifiersNamed(InputParts[k]) # {}
    /\ KeysNamed(InputParts[Len(InputParts)]) # {}

\* C18: from_str parses '<key>', '<mod>+<key>' and '<mod1>+<mod2>+<key>',
\* trimmed and lower-cased, as the named key with the union of the named
\* modifiers, a key name being a special name, f1..f12 or any single character.
C18_FromStrParsesNamedKey ==
    (FromStrReturned /\ WellFormedInput) =>
        /\ key_call.output[1].ok
        /\ key_call.output[1].value.key \in KeysNamed(InputParts[Len(InputParts)])
        /\ key_call.output[1].value.modifiers =
               UNION {ModifiersNamed(InputParts[k]) : k \in 1..(Len(InputParts) - 1)}

ToStringReturned == key_call.op = "to_string" /\ key_call.output # None

\* the names of the set modifiers in the order ctrl, alt, shift, each with its '+'
ModifierPrefix(modifiers) ==
    (IF "CONTROL" \in modifiers THEN W_ctrl \o <<"+">> ELSE <<>>)
        \o (IF "ALT" \in modifiers THEN W_alt \o <<"+">> ELSE <<>>)
        \o (IF "SHIFT" \in modifiers THEN W_shift \o <<"+">> ELSE <<>>)

\* what the string form holds after the modifiers
KeyPart ==
    SubSeq(key_call.output[1], Len(ModifierPrefix(key_call.binding.modifiers)) + 1,
           Len(key_call.output[1]))

\* C19: the string form of a binding is the names of its set modifiers in the
\* order ctrl, alt, shift, then the key name, joined by '+' (none without a
\* modifier); the space character is written 'space', function key n 'f<n>'.
C19_StringForm ==
    ToStringReturned =>
        LET key == key_call.binding.key
            prefix == ModifierPrefix(key_call.binding.modifiers)
        IN  /\ Len(key_call.output[1]) > Len(prefix)
            /\ SubSeq(key_call.output[1], 1, Len(prefix)) = prefix
            /\ key_call.binding.modifiers = {} => key_call.output[1] = KeyPart
            /\ key = Key_Char(" ") => KeyPart = W_space
            /\ (key.kind = "Char" /\ key # Key_Char(" ")) => KeyPart = <<key.c>>
            /\ key.kind = "Function" => KeyPart = <<"f">> \o decimal(key.n)
            /\ (\E p \in SpecialNames : p[2] = key) => <<KeyPart, key>> \in SpecialNames

C19_Witness ==
    /\ ToStringReturned
    /\ key_call.binding = KeyBinding_new(Key_Char(" "), {"CONTROL", "ALT", "SHIFT"})
    /\ key_call.output[1] = W_ctrl \o <<"+">> \o W_alt \o <<"+">> \o W_shift \o <<"+">> \o W_space

MatchReturned ==
    /\ key_call.op \in {"matches", "key_matches", "binding_matches"}
    /\ key_call.output # None

\* C20: an event matches a binding (matches, key_matches, binding_matches)
\* exactly when its key is the binding's key and its modifier set is the
\* binding's modifier set; extra or missing modifiers never match.
C20_MatchIffEqual ==
    MatchReturned =>
        /\ key_call.output[1] <=>
              (/\ key_call.event.code = key_call.binding.key
               /\ key_call.event.modifiers = key_call.binding.modifiers)
        /\ key_call.event.modifiers # key_call.binding.modifiers => ~key_call.output[1]

C20_Witness ==
    /\ MatchReturned
    /\ key_call.op = "matches"
    /\ key_call.event.code = key_call.binding.key
    /\ key_call.binding.modifiers = {"CONTROL"}
    /\ key_call.event.modifiers = {"CONTROL", "SHIFT"}
    /\ ~key_call.output[1]

---------------------------------------------------------------------------
(* Vocabulary of the provider properties *)

\* the last operation was made on a provider that was not degraded / degraded
OnWorking(op) == last.op = op /\ last.before # None /\ ~last.before[1].degraded
OnDegraded(op) == last.op = op /\ last.before # None /\ last.before[1].degraded

NewReturned == last.op = "new"
FileExisted == last.calls[1] = FileCall("exists", TRUE)

\* C15: once a save has succeeded, a successful load, whatever was changed in
\* memory since, and a successful new on the same path, both give the
\* keybindings as they were at the save.
C15_LoadGivesWhatWasSaved ==
    (/\ saved # None
     /\ last.result.ok
     /\ OnWorking("load") \/ NewReturned) => provider[1].keybindings = saved[1]

\* C16: on a degraded provider every load fails and resets the keybindings to
\* the defaults, every save fails, neither touches a file, and the provider
\* stays degraded whatever is done with it.
C16_DegradedNeverTouchesFile ==
    /\ OnDegraded("load") =>
          /\ ~last.result.ok
          /\ last.calls = <<>>
          /\ provider[1].keybindings = KeyBindings_default
    /\ OnDegraded("save") => (~last.result.ok /\ last.calls = <<>>)
    /\ (OnDegraded("load") \/ OnDegraded("save") \/ OnDegraded("keybindings_mut")) =>
          (provider # None /\ provider[1].degraded)

C16_Witness ==
    /\ OnDegraded("load")
    /\ last.before[1].keybindings # KeyBindings_default
    /\ provider[1].keybindings = KeyBindings_default
    /\ file # Absent

\* C17: new creates a missing file with the defaults and returns a working
\* provider holding them, returns a working provider holding what an existing
\* file deserializes to, and returns an error and no provider when creating
\* or loading fails.
C17_NewCreatesOrLoads ==
    NewReturned =>
        /\ last.result.ok <=> \A k \in 2..Len(last.calls) : last.calls[k].ok
        /\ (~FileExisted /\ last.result.ok) =>
              /\ provider = Some([keybindings |-> KeyBindings_default, degraded |-> FALSE])
              /\ file = Written(serialize(KeyBindings_default).value)
        /\ (FileExisted /\ last.result.ok) =>
              provider = Some([keybindings |-> deserialize(file.content).value,
                               degraded |-> FALSE])
        /\ ~last.result.ok => provider = None

C17_Witness ==
    /\ NewReturned
    /\ FileExisted
    /\ last.result.ok
    /\ provider[1].keybindings.move_up = simple(Key_Char("k"))

---------------------------------------------------------------------------
(* C21: in every plan returned, local_dir is set exactly when there is a
   token and the last one names an existing path, and is then that token's
   text; a token at an earlier ordinal is resolved as a host of its class
   even when its text names an existing path; a sole token naming an existing
   path gives local_dir with neither target nor bridge. *)
C21_LocalDirOnlyFromLastToken ==
    Succeeded =>
        /\ result.value.local_dir # None <=>
              (TokenCount >= 1 /\ TokenText(TokenCount - 1) \in ExistingPaths)
        /\ result.value.local_dir # None =>
              result.value.local_dir = Some(TokenText(TokenCount - 1))
        /\ \A k \in 0..(TokenCount - 2) :
              \E j \in 1..Len(resolved) :
                 resolved[j].i = k /\ FromToken(resolved[j].remote, k)
        /\ (TokenCount = 1 /\ TokenText(0) \in ExistingPaths) =>
              /\ is_none(result.value.remote)
              /\ is_none(result.value.host_bridge)

C21_Witness ==
    /\ Succeeded
    /\ args.bookmark = <<Home>> /\ args.ssh_host = <<Home>> /\ args.positional = <<Home>>
    /\ result.value.local_dir = Some(Home)
    /\ result.value.remote.kind = "Bookmark"
    /\ result.value.host_bridge.kind = "Host"

---------------------------------------------------------------------------
(* The tokens whose resolution fails, told from the input alone *)

TokenFails(k) ==
    /\ ~(k = TokenCount - 1 /\ TokenText(k) \in ExistingPaths)
    /\ \/ TokenClass(k) = "Address" /\ TokenText(k) \in RejectedAddresses
       \/ /\ TokenClass(k) = "SshHost"
          /\ ~ssh_config.ok \/ EntriesFor(AliasOf(TokenText(k))) = {}

FailingTokens == {k \in 0..(TokenCount - 1) : TokenFails(k)}

FirstFailing == CHOOSE k \in FailingTokens : \A j \in FailingTokens : k <= j

\* the error is the one the token at ordinal k gives
ErrorOfToken(k) ==
    IF TokenClass(k) = "Address"
    THEN result.err.msg = "Bad address option"
    ELSE IF ~ssh_config.ok
    THEN result.err.msg = "Could not parse SSH config"
    ELSE result.err = [msg |-> "SSH host not found in ~/.ssh/config",
                       detail |-> AliasOf(TokenText(k))]

(* C22: tokens are resolved in ordinal order and resolution stops at the
   first failing one: the error returned is that of the lowest-ordinal
   failing token, no later token is parsed, looked up or checked against the
   filesystem, and every call ends in exactly one of a plan or an error. *)
C22_StopsAtFirstFailure ==
    /\ \A k \in 1..(Len(io) - 1) : io[k].i <= io[k + 1].i
    /\ \A k \in 1..(Len(resolved) - 1) : resolved[k].i < resolved[k + 1].i
    /\ \A k \in 1..Len(io) : io[k].i <= i
    /\ \A k \in 1..Len(resolved) : resolved[k].i < i
    /\ Returned <=> result # Pending
    /\ ~Returned => (pc = "validate" \/ (pc = "loop" /\ i <= TokenCount))
    /\ Succeeded => FailingTokens = {}
    /\ (Failed /\ result # TooManyArguments) =>
          /\ FailingTokens # {}
          /\ i = FirstFailing
          /\ ErrorOfToken(FirstFailing)
          /\ \A k \in 1..Len(io) : io[k].i <= FirstFailing
          /\ \A k \in 1..Len(resolved) : resolved[k].i < FirstFailing
    /\ (Returned /\ TokenCount <= 3 /\ FailingTokens # {}) => Failed

C22_Witness ==
    /\ Failed
    /\ args.bookmark = <<Bad>>
    /\ args.positional = <<Bad, Home>>
    /\ io = <<Ev("parse_remote_opt", 1, FALSE)>>
    /\ Len(resolved) = 1

---------------------------------------------------------------------------
WrittenAndRead == key_call.op = "write_and_read" /\ key_call.output # None

\* C23: every binding of KeyBindings::default() and KeyBindings::vim_style()
\* is given back by parsing its string form: from_str(kb.to_string()) = Ok(kb).
C23_PresetsSurviveTheFile ==
    WrittenAndRead => key_call.output[1] = Ok(key_call.binding)

---------------------------------------------------------------------------
\* C24: on a provider that is not degraded, a load that fails leaves the
\* keybindings in memory as they were before it, and a save, failed or not,
\* never changes them.
C24_FailedLoadAndSaveKeepMemory ==
    /\ (OnWorking("load") /\ ~last.result.ok) =>
          provider[1].keybindings = last.before[1].keybindings
    /\ OnWorking("save") => provider[1].keybindings = last.before[1].keybindings
    /\ (OnWorking("load") \/ OnWorking("save")) => ~provider[1].degraded

C24_Witness ==
    /\ OnWorking("load")
    /\ last.calls = <<FileCall("open_read", TRUE), FileCall("read", FALSE)>>
    /\ provider[1].keybindings.move_up = simple(Key_Char("k"))
    /\ provider[1].keybindings # KeyBindings_default
    /\ file.content.quit = W_unknown

---------------------------------------------------------------------------
\* C25: from_str returns an error, never a binding, for an input of more than
\* three '+'-separated parts, for one with a modifier part that is not a
\* modifier name, and for one whose key part is neither a key name nor a
\* single character, the empty key part included.
C25_FromStrRejects ==
    FromStrReturned =>
        /\ Len(InputParts) > 3 => ~key_call.output[1].ok
        /\ (\E k \in 1..(Len(InputParts) - 1) : ModifiersNamed(InputParts[k]) = {}) =>
              ~key_call.output[1].ok
        /\ KeysNamed(InputParts[Len(InputParts)]) = {} => ~key_call.output[1].ok
        /\ InputParts[Len(InputParts)] = <<>> => ~key_call.output[1].ok

C25_Witness ==
    /\ FromStrReturned
    /\ InputParts = <<W_ctrl, W_alt, W_shift, <<"j">>>>
    /\ key_call.output[1] =
          Err([msg |-> "Invalid key binding format", detail |-> key_call.input])

====
